---- MODULE Spec2Model ----
(***************************************************************************)
(* Model of Seq<size_, T> (assembler/src/include/sequence/seq.hpp): the    *)
(* packed, compile-time-sized ACGT sequence.  A Seq value is a record      *)
(* [size, data]: size is the template parameter size_, data the array      *)
(* data_ of DataSize(size) storage cells of type T (unsigned, TBits wide). *)
(* Characters are their ASCII codes; the raw 2-bit codes are the chars     *)
(* 0..3.  The state machine follows one Seq variable of a client program   *)
(* through construction and the public operations, plus one byte stream    *)
(* used by BinWrite / BinRead.                                             *)
(***************************************************************************)
EXTENDS Integers, Sequences, FiniteSets, TLC

\* ------------------------------------------------------------------ bounds
\* largest size_ that is instantiated
MaxN == 5
\* longest source object handed to the generic constructor
MaxSrcLen == 3
\* number of storage cells of the long sequences that are hashed
HashCells == 12
\* largest size_ that is constructed from malformed input
MaxBadN == 3

\* ------------------------------------------------- template parameter T
\* T is an 8-bit unsigned storage type ("byte storage": 4 nucleotides per cell)
TBits == 8
TWord == 2 ^ TBits
SizeofT == TBits \div 8
TNucl == TBits \div 2

RECURSIVE log_(_, _)
log_(n, base) == IF n < base THEN 0 ELSE 1 + log_(n \div base, base)

TNuclBits == log_(TNucl, 2)
PrimeNum == 239

\* ------------------------------------------------ fixed-width arithmetic
\* a & b and a | b on non-negative ints, bit by bit
RECURSIVE AndBits(_, _)
AndBits(a, b) ==
  IF a = 0 \/ b = 0 THEN 0
  ELSE (a % 2) * (b % 2) + 2 * AndBits(a \div 2, b \div 2)

RECURSIVE OrBits(_, _)
OrBits(a, b) ==
  IF a = 0 THEN b
  ELSE IF b = 0 THEN a
  ELSE (IF (a % 2) + (b % 2) > 0 THEN 1 ELSE 0) + 2 * OrBits(a \div 2, b \div 2)

\* the same, tabulated once for operands that fit in a storage cell
AndTable == [a \in 0..(TWord - 1) |-> [b \in 0..(TWord - 1) |-> AndBits(a, b)]]
OrTable == [a \in 0..(TWord - 1) |-> [b \in 0..(TWord - 1) |-> OrBits(a, b)]]

BitAnd(a, b) == IF a < TWord /\ b < TWord THEN AndTable[a][b] ELSE AndBits(a, b)
BitOr(a, b) == IF a < TWord /\ b < TWord THEN OrTable[a][b] ELSE OrBits(a, b)

\* conversion of an int expression to T drops the bits above TBits
ToT(x) == x % TWord
BitNot(a) == TWord - 1 - ToT(a)
Shl(x, k) == x * (2 ^ k)
Shr(x, k) == x \div (2 ^ k)

\* ------------------------------------------- alphabet codec (nucl.hpp)
NuclMap == <<65, 67, 71, 84>>
\* a character that is neither a nucleotide nor a raw code ('N')
Invalids == {78}

is_nucl(c) == \E k \in 1..4 : NuclMap[k] = c
is_dignucl(c) == c < 4
dignucl(c) == (CHOOSE k \in 1..4 : NuclMap[k] = c) - 1
nucl(c) == NuclMap[c + 1]
complement(c) == 3 - c

Digs == 0..3
Nucls == {NuclMap[k] : k \in 1..4}
\* a symbol argument: a nucleotide character or a raw 2-bit code
Symbols == Digs \cup Nucls
code(c) == IF is_nucl(c) THEN dignucl(c) ELSE c

\* ------------------------------------------------------ class constants
DataSize(size_) == Shr(size_ + TNucl - 1, TNuclBits)
NuclsRemain(size_) == BitAnd(size_, TNucl - 1)
MaskForLastBucket(size_) == Shl(1, Shl(NuclsRemain(size_), 1)) - 1

MkSeq(size_, data_) == [size |-> size_, data |-> data_]
Null == MkSeq(0, <<>>)

\* data_[i] with the C++ 0-based index
Cell(data_, i) == data_[i + 1]
SetCell(data_, i, v) == [data_ EXCEPT ![i + 1] = v]

\* char operator[](i)
At(q, i) ==
  BitAnd(Shr(Cell(q.data, Shr(i, TNuclBits)), Shl(BitAnd(i, TNucl - 1), 1)), 3)

\* void set(i, c)
set(q, i, c) ==
  LET w  == Shr(i, TNuclBits)
      sh == Shl(BitAnd(i, TNucl - 1), 1)
  IN  MkSeq(q.size,
            SetCell(q.data, w,
                    ToT(BitOr(BitAnd(Cell(q.data, w), BitNot(ToT(Shl(3, sh)))),
                              Shl(c, sh)))))

\* ---------------------------------------------------------- constructors
\* Seq(): std::fill(data_, 0)
SeqDefault(size_) == MkSeq(size_, [i \in 1..DataSize(size_) |-> 0])

\* SetZero(): std::fill(data_, -1); the -1 converts to the all-ones T
SetZero(q) == MkSeq(q.size, [i \in 1..DataSize(q.size) |-> ToT(0 - 1)])

\* GetZero(): Seq res; res.SetZero(); return res
GetZero(size_) == SetZero(SeqDefault(size_))

\* *(s + pos) of a zero-terminated buffer holding the characters s
CharAt(s, pos) == IF pos < Len(s) THEN s[pos + 1] ELSE 0

\* the loop of init(const char* s); arr collects data_[0..cur-1]
RECURSIVE initLoop(_, _, _, _, _, _)
initLoop(size_, s, pos, data, cnt, arr) ==
  IF pos < size_
  THEN LET d1 == ToT(BitOr(data, Shl(dignucl(CharAt(s, pos)), cnt)))
       IN  IF cnt + 2 = TBits
           THEN initLoop(size_, s, pos + 1, 0, 0, Append(arr, d1))
           ELSE initLoop(size_, s, pos + 1, d1, cnt + 2, arr)
  ELSE [arr    |-> IF cnt # 0 THEN Append(arr, data) ELSE arr,
        verify |-> CharAt(s, pos) = 0]

\* init with `data = 0` forgotten after a cell is stored
RECURSIVE initLoopNoReset(_, _, _, _, _, _)
initLoopNoReset(size_, s, pos, data, cnt, arr) ==
  IF pos < size_
  THEN LET d1 == ToT(BitOr(data, Shl(dignucl(CharAt(s, pos)), cnt)))
       IN  IF cnt + 2 = TBits
           THEN initLoopNoReset(size_, s, pos + 1, d1, 0, Append(arr, d1))
           ELSE initLoopNoReset(size_, s, pos + 1, d1, cnt + 2, arr)
  ELSE [arr    |-> IF cnt # 0 THEN Append(arr, data) ELSE arr,
        verify |-> CharAt(s, pos) = 0]

initNoReset(size_, s) == initLoopNoReset(size_, s, 0, 0, 0, <<>>)

\* init(const char* s): [arr: the cells written, verify: VERIFY(*s == 0)]
init(size_, s) == initLoop(size_, s, 0, 0, 0, <<>>)

\* the read loop of Seq(const S& s, offset, number_to_read); s[k] is src[k+1]
RECURSIVE ctorLoop(_, _, _, _, _, _, _, _)
ctorLoop(src, digit_str, offset, number_to_read, i, data, cnt, arr) ==
  IF i < number_to_read
  THEN LET c  == IF digit_str THEN src[offset + i + 1]
                 ELSE dignucl(src[offset + i + 1])
           d1 == ToT(BitOr(data, Shl(c, cnt)))
       IN  IF cnt + 2 = TBits
           THEN ctorLoop(src, digit_str, offset, number_to_read, i + 1, 0, 0,
                         Append(arr, d1))
           ELSE ctorLoop(src, digit_str, offset, number_to_read, i + 1, d1,
                         cnt + 2, arr)
  ELSE IF cnt # 0 THEN Append(arr, data) ELSE arr

\* the generic constructor with the offset dropped from the index
SeqFromNoOffset(size_, src, offset, number_to_read) ==
  LET arr == ctorLoop(src, is_dignucl(src[1]), 0, number_to_read, 0, 0, 0, <<>>)
  IN  MkSeq(size_,
            [k \in 1..DataSize(size_) |-> IF k <= Len(arr) THEN arr[k] ELSE 0])

\* Seq(const S& s, offset, number_to_read), past its VERIFY: the cells the
\* loop wrote, then zeros up to DataSize
SeqFrom(size_, src, offset, number_to_read) ==
  LET arr == ctorLoop(src, is_dignucl(src[1]), offset, number_to_read, 0, 0, 0,
                      <<>>)
  IN  MkSeq(size_,
            [k \in 1..DataSize(size_) |-> IF k <= Len(arr) THEN arr[k] ELSE 0])

\* VERIFY(is_dignucl(s[0]) || is_nucl(s[0]))
SeqFromVerify(src) == is_dignucl(src[1]) \/ is_nucl(src[1])

\* ---------------------------------- constructors on input of any content
\* what dignucl gives for a character that is not a nucleotide is left open
\* by the codec: it returns some char (0, 3 and -1, i.e. 255 as T, stand for
\* them) or stops the process itself (-1 here)
CodecOutcomes == {-1, 0, 3, TWord - 1}
CodecStops(bad) == bad < 0
dignuclOr(c, bad) == IF is_nucl(c) THEN dignucl(c) ELSE bad

\* init(const char* s) on a buffer of any content: as initLoop, with the
\* codec's answer `bad` for the characters it does not know.  The buffer is
\* s followed by zero bytes.
RECURSIVE initLoopOr(_, _, _, _, _, _, _)
initLoopOr(size_, s, bad, pos, data, cnt, arr) ==
  IF pos < size_
  THEN IF ~is_nucl(CharAt(s, pos)) /\ CodecStops(bad)
       THEN [arr |-> arr, verify |-> FALSE]
       ELSE LET d1 == ToT(BitOr(data, Shl(dignuclOr(CharAt(s, pos), bad), cnt)))
            IN  IF cnt + 2 = TBits
                THEN initLoopOr(size_, s, bad, pos + 1, 0, 0, Append(arr, d1))
                ELSE initLoopOr(size_, s, bad, pos + 1, d1, cnt + 2, arr)
  ELSE [arr    |-> IF cnt # 0 THEN Append(arr, data) ELSE arr,
        verify |-> CharAt(s, pos) = 0]

initOr(size_, s, bad) == initLoopOr(size_, s, bad, 0, 0, 0, <<>>)

\* the read loop of the generic constructor on a source of any content
RECURSIVE ctorLoopOr(_, _, _, _, _, _, _, _, _)
ctorLoopOr(src, bad, digit_str, offset, number_to_read, i, data, cnt, arr) ==
  IF i < number_to_read
  THEN IF ~digit_str /\ ~is_nucl(src[offset + i + 1]) /\ CodecStops(bad)
       THEN [arr |-> arr, verify |-> FALSE]
       ELSE LET c  == IF digit_str THEN src[offset + i + 1]
                      ELSE dignuclOr(src[offset + i + 1], bad)
                d1 == ToT(BitOr(data, Shl(c, cnt)))
            IN  IF cnt + 2 = TBits
                THEN ctorLoopOr(src, bad, digit_str, offset, number_to_read,
                                i + 1, 0, 0, Append(arr, d1))
                ELSE ctorLoopOr(src, bad, digit_str, offset, number_to_read,
                                i + 1, d1, cnt + 2, arr)
  ELSE [arr |-> IF cnt # 0 THEN Append(arr, data) ELSE arr, verify |-> TRUE]

\* Seq(const S& s, offset, number_to_read) on a source of any content:
\* [seq: the value built, verify: no VERIFY failed]
SeqFromOr(size_, src, bad, offset, number_to_read) ==
  IF ~SeqFromVerify(src)
  THEN [seq |-> Null, verify |-> FALSE]
  ELSE LET r == ctorLoopOr(src, bad, is_dignucl(src[1]), offset,
                           number_to_read, 0, 0, 0, <<>>)
       IN  [seq    |-> MkSeq(size_,
                         [k \in 1..DataSize(size_) |->
                            IF k <= Len(r.arr) THEN r.arr[k] ELSE 0]),
            verify |-> r.verify]

\* Seq(T* data_array): the first DataSize-1 cells are copied; the last one is
\* assigned (masked) only if NuclsRemain != 0 and otherwise keeps the
\* indeterminate value `junk` of the uninitialised array
SeqFromArray(size_, data_array, junk) ==
  MkSeq(size_,
        [k \in 1..DataSize(size_) |->
           IF k < DataSize(size_) THEN data_array[k]
           ELSE IF NuclsRemain(size_) # 0
                THEN BitAnd(data_array[k], MaskForLastBucket(size_))
                ELSE junk])

\* ------------------------------------------------------------ operations
\* std::string str()
str(q) == [k \in 1..q.size |-> nucl(At(q, k - 1))]

\* the swap loop of operator!
RECURSIVE revLoop(_, _)
revLoop(res, i) ==
  IF i < Shr(res.size, 1)
  THEN LET front == complement(At(res, i))
           end_  == complement(At(res, res.size - 1 - i))
       IN  revLoop(set(set(res, i, end_), res.size - 1 - i, front), i + 1)
  ELSE res

\* operator! without the step for the middle symbol of an odd size_
RevComplNoMiddle(q) == revLoop(q, 0)

\* Seq operator!() const
RevCompl(q) ==
  LET res == revLoop(q, 0)
  IN  IF BitAnd(q.size, 1) = 1
      THEN set(res, Shr(q.size, 1), complement(At(res, Shr(q.size, 1))))
      ELSE res

\* the carry loop of operator<<, i = DataSize-2 down to 0
RECURSIVE shlLoop(_, _, _)
shlLoop(data, i, rm) ==
  IF i >= 0
  THEN shlLoop(SetCell(data, i,
                       ToT(BitOr(Shr(Cell(data, i), 2), Shl(rm, TBits - 2)))),
               i - 1, BitAnd(Cell(data, i), 3))
  ELSE data

\* Seq operator<<(char c) const
ShiftLeft(q, c0) ==
  LET c  == IF is_nucl(c0) THEN dignucl(c0) ELSE c0
      ds == DataSize(q.size)
  IN  IF ds # 0
      THEN LET rm            == BitAnd(Cell(q.data, ds - 1), 3)
               lastnuclshift == Shl(BitAnd(q.size + TNucl - 1, TNucl - 1), 1)
               d1 == SetCell(q.data, ds - 1,
                             ToT(BitOr(Shr(Cell(q.data, ds - 1), 2),
                                       Shl(c, lastnuclshift))))
           IN  MkSeq(q.size, IF ds >= 2 THEN shlLoop(d1, ds - 2, rm) ELSE d1)
      ELSE q

\* Seq<size_ + 1> pushBack(char c) const
pushBack(q, c0) ==
  LET c  == IF is_nucl(c0) THEN dignucl(c0) ELSE c0
      s  == SeqDefault(q.size + 1)
      cp == [k \in 1..DataSize(q.size + 1) |->
               IF k <= Len(q.data) THEN q.data[k] ELSE s.data[k]]
      l  == DataSize(q.size + 1) - 1
  IN  MkSeq(q.size + 1,
            SetCell(cp, l,
                    ToT(BitOr(Cell(cp, l),
                              Shl(c, Shl(BitAnd(q.size, TNucl - 1), 1))))))

\* Seq<size_ + 1> pushFront(char c) const, past its VERIFY:
\* Seq<size_ + 1>(nucl(c) + str())
pushFront(q, c0) ==
  LET c == IF is_nucl(c0) THEN dignucl(c0) ELSE c0
  IN  SeqFrom(q.size + 1, <<nucl(c)>> \o str(q), 0, q.size + 1)

\* the carry loop of operator>>, i = 0 up to DataSize-1
RECURSIVE shrLoop(_, _, _)
shrLoop(data, i, rm) ==
  IF i < Len(data)
  THEN shrLoop(SetCell(data, i, ToT(BitOr(Shl(Cell(data, i), 2), rm))),
               i + 1, BitAnd(Shr(Cell(data, i), TBits - 2), 3))
  ELSE data

\* operator>> without the final masking of the last cell
ShiftRightNoMask(q, c0) ==
  LET c == IF is_nucl(c0) THEN dignucl(c0) ELSE c0
  IN  MkSeq(q.size, shrLoop(q.data, 0, c))

\* Seq operator>>(char c) const, past its VERIFY
ShiftRight(q, c0) ==
  LET c  == IF is_nucl(c0) THEN dignucl(c0) ELSE c0
      d1 == shrLoop(q.data, 0, c)
      ds == DataSize(q.size)
  IN  IF BitAnd(q.size, TNucl - 1) # 0
      THEN LET lastnuclshift == Shl(BitAnd(q.size, TNucl - 1), 1)
           IN  MkSeq(q.size,
                     SetCell(d1, ds - 1,
                             BitAnd(Cell(d1, ds - 1),
                                    Shl(1, lastnuclshift) - 1)))
      ELSE MkSeq(q.size, d1)

\* the symbols of q as an indexable source (operator[] for 0 <= i < size_)
AsSource(q) == [k \in 1..q.size |-> At(q, k - 1)]

\* Seq<size2_> start() const: Seq<size2_>(*this); with size2_ = size_ this is
\* the copy constructor, otherwise the generic constructor reading size2_
start(q, size2_) ==
  IF size2_ = q.size THEN q ELSE SeqFrom(size2_, AsSource(q), 0, size2_)

\* Seq<size2_> end() const: Seq<size2_>(*this, size_ - size2_)
end(q, size2_) == SeqFrom(size2_, AsSource(q), q.size - size2_, size2_)

\* the bytes of the storage array in the host's (little-endian) layout
WordBytes(w) == [k \in 1..SizeofT |-> (w \div (256 ^ (k - 1))) % 256]

RECURSIVE Bytes(_)
Bytes(data) ==
  IF data = <<>> THEN <<>> ELSE WordBytes(Head(data)) \o Bytes(Tail(data))

\* 0 == memcmp(data_.data(), s.data_.data(), sizeof(T) * DataSize)
memcmpEq(a, b, n) == \A k \in 1..n : a[k] = b[k]

\* bool operator==(const Seq& s) const
Equal(q, s) == memcmpEq(Bytes(q.data), Bytes(s.data), SizeofT * DataSize(q.size))

\* bool operator!=(const Seq& s) const
NotEqual(q, s) ==
  ~memcmpEq(Bytes(q.data), Bytes(s.data), SizeofT * DataSize(q.size))

\* equal_to()(l, r)
equal_to(l, r) == memcmpEq(Bytes(l.data), Bytes(r.data), SizeofT * DataSize(l.size))

\* size_t: an unsigned integer of SizeTBits bits, held as limbs of 16 bits,
\* least significant first; arithmetic on it wraps around at 2^SizeTBits
SizeTBits == 64
Limb == 2 ^ 16
NLimbs == SizeTBits \div 16

\* the size_t with the value n, for 0 <= n < 2^31
SizeT(n) ==
  [k \in 1..NLimbs |-> IF k = 1 THEN n % Limb ELSE IF k = 2 THEN n \div Limb ELSE 0]

\* h << s for s < 16: the bits shifted out of the top limb are lost
RECURSIVE SizeTShlLoop(_, _, _, _)
SizeTShlLoop(h, s, k, carry) ==
  IF k > NLimbs THEN <<>>
  ELSE LET v == h[k] * (2 ^ s) + carry
       IN  <<v % Limb>> \o SizeTShlLoop(h, s, k + 1, v \div Limb)

SizeTShl(h, s) == SizeTShlLoop(h, s, 1, 0)

\* a - b: a borrow out of the top limb is lost
RECURSIVE SizeTSubLoop(_, _, _, _)
SizeTSubLoop(a, b, k, borrow) ==
  IF k > NLimbs THEN <<>>
  ELSE LET v == a[k] - b[k] - borrow
       IN  <<(v + Limb) % Limb>>
             \o SizeTSubLoop(a, b, k + 1, IF v < 0 THEN 1 ELSE 0)

SizeTSub(a, b) == SizeTSubLoop(a, b, 1, 0)

\* a + b: a carry out of the top limb is lost
RECURSIVE SizeTAddLoop(_, _, _, _)
SizeTAddLoop(a, b, k, carry) ==
  IF k > NLimbs THEN <<>>
  ELSE LET v == a[k] + b[k] + carry
       IN  <<v % Limb>> \o SizeTAddLoop(a, b, k + 1, v \div Limb)

SizeTAdd(a, b) == SizeTAddLoop(a, b, 1, 0)

\* size_t GetHash() const; v holds the loop's variables i and hash
RECURSIVE GetHashLoop(_, _)
GetHashLoop(data, v) ==
  IF v.i < Len(data)
  THEN GetHashLoop(data,
         [i    |-> v.i + 1,
          hash |-> SizeTAdd(SizeTSub(SizeTShl(v.hash, 5), v.hash),
                            SizeT(Cell(data, v.i)))])
  ELSE v.hash

\* GetHash with hash << 4 in place of hash << 5
RECURSIVE GetHashLoopShift4(_, _)
GetHashLoopShift4(data, v) ==
  IF v.i < Len(data)
  THEN GetHashLoopShift4(data,
         [i    |-> v.i + 1,
          hash |-> SizeTAdd(SizeTSub(SizeTShl(v.hash, 4), v.hash),
                            SizeT(Cell(data, v.i)))])
  ELSE v.hash

GetHashShift4(q) == GetHashLoopShift4(q.data, [i |-> 0, hash |-> SizeT(PrimeNum)])

GetHash(q) == GetHashLoop(q.data, [i |-> 0, hash |-> SizeT(PrimeNum)])

\* struct hash: size_t operator()(const Seq& seq) const
RECURSIVE hashLoop(_, _)
hashLoop(data, v) ==
  IF v.i < Len(data)
  THEN hashLoop(data,
         [i    |-> v.i + 1,
          hash |-> SizeTAdd(SizeTSub(SizeTShl(v.hash, 5), v.hash),
                            SizeT(Cell(data, v.i)))])
  ELSE v.hash

hash(q) == hashLoop(q.data, [i |-> 0, hash |-> SizeT(PrimeNum)])

\* ------------------------------------------------------------ byte stream
\* a stream: the bytes not yet read and its failbit.  A failed stream never
\* delivers a byte again, so its pending bytes are dropped.
GoodStream(bytes) == [bytes |-> bytes, fail |-> FALSE]
FailedStream == [bytes |-> <<>>, fail |-> TRUE]

\* cells rebuilt from bytes in the host's layout
RECURSIVE WordOf(_)
WordOf(bs) == IF bs = <<>> THEN 0 ELSE Head(bs) + 256 * WordOf(Tail(bs))

CellsOf(bs) ==
  [k \in 1..(Len(bs) \div SizeofT) |->
     WordOf(SubSeq(bs, (k - 1) * SizeofT + 1, k * SizeofT))]

\* BinWrite returning true without looking at the stream
BinWriteReturnsTrue(file, q, ioerr) ==
  IF file.fail \/ ioerr
  THEN [file |-> FailedStream, ret |-> TRUE]
  ELSE [file |-> GoodStream(file.bytes
                            \o SubSeq(Bytes(q.data), 1, SizeofT * DataSize(q.size))),
        ret  |-> TRUE]

\* file.write((const char*) seq.data_.data(), sizeof(T) * DataSize);
\* return !file.fail();   ioerr: the device refuses the write
BinWrite(file, q, ioerr) ==
  IF file.fail \/ ioerr
  THEN [file |-> FailedStream, ret |-> FALSE]
  ELSE [file |-> GoodStream(file.bytes
                            \o SubSeq(Bytes(q.data), 1, SizeofT * DataSize(q.size))),
        ret  |-> TRUE]

\* BinRead asking for one storage cell less than the record holds
BinReadKeepLast(file, q) ==
  LET n     == SizeofT * (DataSize(q.size) - 1)
      got   == IF file.fail THEN 0
               ELSE IF Len(file.bytes) < n THEN Len(file.bytes) ELSE n
      mem   == [k \in 1..(SizeofT * DataSize(q.size)) |->
                  IF k <= got THEN file.bytes[k] ELSE Bytes(q.data)[k]]
  IN  [file |-> IF got < n THEN FailedStream
                ELSE GoodStream(SubSeq(file.bytes, n + 1, Len(file.bytes))),
       seq  |-> MkSeq(q.size, CellsOf(mem)),
       ret  |-> got = n]

\* file.read((char*) seq->data_.data(), sizeof(T) * DataSize);
\* return !file.fail();   a short read stores what there is and sets failbit
BinRead(file, q) ==
  LET n     == SizeofT * DataSize(q.size)
      got   == IF file.fail THEN 0
               ELSE IF Len(file.bytes) < n THEN Len(file.bytes) ELSE n
      mem   == [k \in 1..n |->
                  IF k <= got THEN file.bytes[k] ELSE Bytes(q.data)[k]]
  IN  [file |-> IF got < n THEN FailedStream
                ELSE GoodStream(SubSeq(file.bytes, n + 1, Len(file.bytes))),
       seq  |-> MkSeq(q.size, CellsOf(mem)),
       ret  |-> got = n]

\* ---------------------------------------------------------- state machine
\* The client program holds one Seq object, `self`.  An operation is applied
\* to it and returns a value, `res`; Keep stores the returned value in the
\* client's object.  op, input, out and ret record the last operation, its
\* arguments and what it returned.
VARIABLES
  self,    \* the client's Seq object (*this of the operations), or Null
  res,     \* the Seq the last operation returned, until it is kept
  op,      \* the last operation
  input,   \* its other arguments
  out,     \* the string or hash it returned
  ret,     \* the bool it returned
  status,  \* "ok", or "fatal" once a VERIFY has failed
  strm,    \* the byte stream
  wrote    \* the Seq whose whole record the stream holds, or Null

vars == <<self, res, op, input, out, ret, status, strm, wrote>>

NoInput == [c |-> 0, src |-> <<>>, offset |-> 0, count |-> 0]
InC(c) == [NoInput EXCEPT !.c = c]
InSrc(src, offset, count) ==
  [c |-> 0, src |-> src, offset |-> offset, count |-> count]

Sizes == 1..MaxN

RECURSIVE StringsOver(_, _)
StringsOver(alphabet, n) ==
  IF n = 0 THEN {<<>>}
  ELSE {Append(s, a) : s \in StringsOver(alphabet, n - 1), a \in alphabet}

Init ==
  /\ self = Null
  /\ res = Null
  /\ op = "none"
  /\ input = NoInput
  /\ out = <<>>
  /\ ret = TRUE
  /\ status = "ok"
  /\ strm = GoodStream(<<>>)
  /\ wrote = Null

\* a VERIFY failed: the process is gone, no value is produced
Fatal(name, in) ==
  /\ status' = "fatal"
  /\ op' = name
  /\ input' = in
  /\ res' = Null
  /\ out' = <<>>
  /\ ret' = FALSE
  /\ UNCHANGED <<self, strm, wrote>>

\* the record in the stream stays whole until a BinRead touches it
Pending == IF strm.bytes # <<>> /\ op # "BinRead" THEN wrote ELSE Null

\* an operation returned the new value r
Produce(name, in, r) ==
  /\ op' = name
  /\ input' = in
  /\ res' = r
  /\ out' = <<>>
  /\ ret' = TRUE
  /\ wrote' = Pending
  /\ UNCHANGED <<self, status, strm>>

\* an operation returned a string, a hash or a bool
Observe(name, o, b) ==
  /\ op' = name
  /\ input' = NoInput
  /\ out' = o
  /\ ret' = b
  /\ wrote' = Pending
  /\ UNCHANGED <<self, res, status, strm>>

\* nothing has been constructed yet
Fresh == status = "ok" /\ op = "none"
\* a record has just been written: the client sets up the object to read into
Reading == status = "ok" /\ op = "BinWrite" /\ strm.bytes # <<>>
\* the client holds a value and no returned value is waiting to be kept
Held == status = "ok" /\ self # Null /\ res = Null

\* self = res: the client keeps the returned value
Keep ==
  /\ status = "ok"
  /\ res # Null
  /\ self' = res
  /\ res' = Null
  /\ op' = "keep"
  /\ input' = NoInput
  /\ out' = <<>>
  /\ ret' = TRUE
  /\ wrote' = Pending
  /\ UNCHANGED <<status, strm>>

\* ------------------------------------------------------------ construction
\* Seq<n>()
CtorDefault ==
  /\ Fresh \/ Reading
  /\ \E n \in Sizes : Produce("Seq()", NoInput, SeqDefault(n))

\* Seq<n>::GetZero()
CtorGetZero ==
  /\ Fresh \/ Reading
  /\ \E n \in Sizes : Produce("GetZero", NoInput, GetZero(n))

\* Seq<n>(const char* s) for a buffer of n or n+1 nucleotides and its 0
CtorCString ==
  /\ Fresh
  /\ \E n \in Sizes :
       \E s \in StringsOver(Nucls, n) \cup StringsOver(Nucls, n + 1) :
          LET r == init(n, s)
          IN  IF r.verify
              THEN Produce("Seq(char*)", InSrc(s, 0, n), MkSeq(n, r.arr))
              ELSE Fatal("Seq(char*)", InSrc(s, 0, n))

\* the strings of HashCells * TNucl nucleotides made of runs AAAA and TTTT
LongStrings ==
  {[i \in 1..(HashCells * TNucl) |-> b[((i - 1) \div TNucl) + 1]] :
     b \in [1..HashCells -> {NuclMap[1], NuclMap[4]}]}

\* Seq<HashCells * TNucl>(const char* s) for a long string and its 0
CtorCStringLong ==
  /\ Fresh
  /\ \E s \in LongStrings :
       LET n == HashCells * TNucl
           r == init(n, s)
       IN  IF r.verify
           THEN Produce("Seq(char*)", InSrc(s, 0, n), MkSeq(n, r.arr))
           ELSE Fatal("Seq(char*)", InSrc(s, 0, n))

\* the objects handed to the generic constructor: strings of nucleotide
\* characters, strings of raw codes, and one starting with an invalid char
Sources ==
  UNION {StringsOver(Nucls, l) \cup StringsOver(Digs, l) : l \in 1..MaxSrcLen}
    \cup {<<x>> : x \in Invalids}

Min(a, b) == IF a < b THEN a ELSE b

\* Seq<n>(s, offset, number_to_read), reading inside s
CtorGeneric ==
  /\ Fresh
  /\ \E n \in Sizes, src \in Sources :
       \E offset \in 0..Len(src) :
          \E cnt \in 0..Min(n, Len(src) - offset) :
             IF SeqFromVerify(src)
             THEN Produce("Seq(S)", InSrc(src, offset, cnt),
                          SeqFrom(n, src, offset, cnt))
             ELSE Fatal("Seq(S)", InSrc(src, offset, cnt))

\* the storage cells offered in a pre-packed buffer
BufCells == {w \in 0..(TWord - 1) : w % 51 = 0}

\* Seq<n>(T* data_array); the uninitialised last cell may hold anything
CtorArray ==
  /\ Fresh
  /\ \E n \in Sizes :
       \E data_array \in [1..DataSize(n) -> BufCells] :
          \E junk \in IF NuclsRemain(n) = 0 THEN 0..(TWord - 1) ELSE {0} :
             Produce("Seq(T*)", InSrc(data_array, 0, n),
                     SeqFromArray(n, data_array, junk))

\* -------------------------------------------------------------- operators
\* self << c
OpShiftLeft ==
  /\ Held
  /\ \E c \in Symbols : Produce("<<", InC(c), ShiftLeft(self, c))

\* self >> c, VERIFY(is_dignucl(c)) first
OpShiftRight ==
  /\ Held
  /\ \E c \in Symbols \cup Invalids :
       IF is_dignucl(code(c))
       THEN Produce(">>", InC(c), ShiftRight(self, c))
       ELSE Fatal(">>", InC(c))

\* !self
OpRevCompl ==
  /\ Held
  /\ Produce("!", NoInput, RevCompl(self))

\* self.pushBack(c)
OpPushBack ==
  /\ Held
  /\ self.size < MaxN
  /\ \E c \in Symbols : Produce("pushBack", InC(c), pushBack(self, c))

\* self.pushFront(c), VERIFY(is_dignucl(c)) first
OpPushFront ==
  /\ Held
  /\ self.size < MaxN
  /\ \E c \in Symbols \cup Invalids :
       IF is_dignucl(code(c))
       THEN Produce("pushFront", InC(c), pushFront(self, c))
       ELSE Fatal("pushFront", InC(c))

\* self.start<m>(), VERIFY(size2_ <= size_) first
OpStart ==
  /\ Held
  /\ \E m \in Sizes :
       IF m <= self.size
       THEN Produce("start", InSrc(<<>>, 0, m), start(self, m))
       ELSE Fatal("start", InSrc(<<>>, 0, m))

\* self.end<m>(), VERIFY(size2_ <= size_) first
OpEnd ==
  /\ Held
  /\ \E m \in Sizes :
       IF m <= self.size
       THEN Produce("end", InSrc(<<>>, self.size - m, m), end(self, m))
       ELSE Fatal("end", InSrc(<<>>, 0, m))

\* self.SetZero(): public and not const, it fills the client's object in place
OpSetZero ==
  /\ Held
  /\ self' = SetZero(self)
  /\ op' = "SetZero"
  /\ input' = NoInput
  /\ out' = <<>>
  /\ ret' = TRUE
  /\ wrote' = Pending
  /\ UNCHANGED <<res, status, strm>>

\* self.str()
OpStr ==
  /\ Held
  /\ Observe("str", str(self), TRUE)

\* self.GetHash()
OpGetHash ==
  /\ Held
  /\ Observe("GetHash", GetHash(self), TRUE)

\* Seq::hash()(self)
OpHash ==
  /\ Held
  /\ Observe("hash", hash(self), TRUE)

\* res == self, res != self and Seq::equal_to()(res, self): the returned
\* value against the client's object, when they are of one type
OpCompare ==
  /\ status = "ok"
  /\ self # Null
  /\ res # Null
  /\ self.size = res.size
  /\ op # "compare"
  /\ Observe("compare",
             <<Equal(res, self), NotEqual(res, self), equal_to(res, self)>>,
             Equal(res, self))

\* ---------------------------------------------------------- serialization
\* self.BinWrite(file) on a stream with nothing left to read
OpBinWrite ==
  /\ Held
  /\ strm.bytes = <<>>
  /\ \E ioerr \in BOOLEAN :
       LET r == BinWrite(strm, self, ioerr)
       IN  /\ strm' = r.file
           /\ ret' = r.ret
           /\ wrote' = IF r.ret THEN self ELSE Null
  /\ op' = "BinWrite"
  /\ input' = NoInput
  /\ out' = <<>>
  /\ UNCHANGED <<self, res, status>>

\* self.BinRead(file): overwrites self in place; input.src keeps the cells
\* it held before
OpBinRead ==
  /\ Held
  /\ LET r == BinRead(strm, self)
     IN  /\ strm' = r.file
         /\ self' = r.seq
         /\ ret' = r.ret
  /\ op' = "BinRead"
  /\ input' = InSrc(self.data, 0, 0)
  /\ out' = <<>>
  /\ wrote' = IF op = "BinRead" THEN Null ELSE wrote
  /\ UNCHANGED <<res, status>>

\* the client drops a failed stream and opens a fresh one
Reopen ==
  /\ status = "ok"
  /\ strm.fail
  /\ strm' = GoodStream(<<>>)
  /\ UNCHANGED <<self, res, op, input, out, ret, status, wrote>>

\* the life of a value: construction, the operators, the observers
Next ==
  \/ CtorDefault
  \/ CtorGetZero
  \/ CtorCString
  \/ CtorGeneric
  \/ CtorArray
  \/ Keep
  \/ OpShiftLeft
  \/ OpShiftRight
  \/ OpRevCompl
  \/ OpPushBack
  \/ OpPushFront
  \/ OpStart
  \/ OpEnd
  \/ OpSetZero
  \/ OpStr
  \/ OpGetHash
  \/ OpHash
  \/ OpCompare

Spec == Init /\ [][Next]_vars

\* serialization: constructed values written to and read from the stream
NextIO ==
  \/ CtorDefault
  \/ CtorGetZero
  \/ CtorCString
  \/ CtorGeneric
  \/ CtorArray
  \/ Keep
  \/ OpBinWrite
  \/ OpBinRead
  \/ Reopen

SpecIO == Init /\ [][NextIO]_vars

\* hashing: sequences long enough for the hash to exceed the width of size_t
NextHash ==
  \/ CtorCStringLong
  \/ Keep
  \/ OpRevCompl
  \/ OpGetHash
  \/ OpHash
  \/ OpCompare

SpecHash == Init /\ [][NextHash]_vars

\* malformed construction input: strings and sources that may hold a
\* character that is no symbol, and strings of any length
BadSizes == 1..MaxBadN
InBad(src, bad, offset, count) ==
  [c |-> bad, src |-> src, offset |-> offset, count |-> count]

\* Seq<n>(const char* s) for a string of 0..n+1 characters
CtorCStringAny ==
  /\ Fresh
  /\ \E n \in BadSizes, bad \in CodecOutcomes :
       \E l \in 0..(n + 1) :
          \E s \in StringsOver(Nucls \cup Invalids, l) :
             LET r == initOr(n, s, bad)
             IN  IF r.verify
                 THEN Produce("Seq(char*)", InBad(s, bad, 0, n), MkSeq(n, r.arr))
                 ELSE Fatal("Seq(char*)", InBad(s, bad, 0, n))

\* sources of nucleotide characters or of raw codes, with characters that
\* are neither among them
SourcesAny ==
  UNION {StringsOver(Nucls \cup Invalids, l) \cup StringsOver(Digs \cup Invalids, l) :
           l \in 1..MaxBadN}

\* Seq<n>(s, offset, number_to_read), reading inside s
CtorGenericAny ==
  /\ Fresh
  /\ \E n \in BadSizes, bad \in CodecOutcomes, src \in SourcesAny :
       \E offset \in 0..Len(src) :
          \E cnt \in 0..Min(n, Len(src) - offset) :
             LET r == SeqFromOr(n, src, bad, offset, cnt)
             IN  IF r.verify
                 THEN Produce("Seq(S)", InBad(src, bad, offset, cnt), r.seq)
                 ELSE Fatal("Seq(S)", InBad(src, bad, offset, cnt))

NextAny ==
  \/ CtorCStringAny
  \/ CtorGenericAny
  \/ Keep
  \/ OpStr

SpecAny == Init /\ [][NextAny]_vars

\* ================================================================= claims
\* the 2-bit group at logical position i, read off the storage directly
SymbolAt(q, i) == (q.data[(i \div TNucl) + 1] \div (4 ^ (i % TNucl))) % 4

\* every 2-bit group of the last cell at a position >= size is 0
PaddingZero(q) ==
  \A i \in q.size..(DataSize(q.size) * TNucl - 1) : SymbolAt(q, i) = 0

SameSymbols(q1, q2) == \A i \in 0..(q1.size - 1) : SymbolAt(q1, i) = SymbolAt(q2, i)

\* C1: every Seq value, however constructed (Seq(), Seq(char*), Seq(S),
\* Seq(T*), GetZero) and whatever operators followed, has all 2-bit groups at
\* positions >= size_ of its last cell equal to 0.
C1_PaddingInvariant ==
  /\ self # Null => PaddingZero(self)
  /\ res # Null => PaddingZero(res)

\* C2: ==, equal_to and the negation of != hold exactly when the two
\* sequences agree symbol by symbol.
C2_EqualityIsSymbolwise ==
  op = "compare" =>
    /\ out[1] <=> SameSymbols(res, self)
    /\ ~out[2] <=> SameSymbols(res, self)
    /\ out[3] <=> SameSymbols(res, self)

\* C3: a Seq built from a string s of exactly size_ nucleotides gives s back
\* from str(); symbol i of s is the 2-bit group at bit (i mod TNucl)*2 of cell
\* i div TNucl, so "ACGT" in byte storage is the one cell 0b11100100.
C3_StringRoundTrip ==
  (op = "Seq(char*)" /\ status = "ok") =>
    /\ Len(res.data) = DataSize(res.size)
    /\ str(res) = input.src
    /\ \A i \in 0..(res.size - 1) :
         SymbolAt(res, i) = dignucl(input.src[i + 1])
    /\ input.src = <<65, 67, 71, 84>> => res.data = <<228>>

\* C3 witness: "ACGTC" was packed into two cells
C3_Witness ==
  /\ op = "Seq(char*)"
  /\ status = "ok"
  /\ input.src = <<65, 67, 71, 84, 67>>
  /\ res = MkSeq(5, <<228, 1>>)

\* C4: r = q << c has r[N-1] = code(c) and r[i] = q[i+1] for i < N-1, for
\* any number of storage cells and c a nucleotide character or a 2-bit code.
C4_ShiftLeftConsistency ==
  op = "<<" =>
    /\ SymbolAt(res, res.size - 1) = code(input.c)
    /\ \A i \in 0..(res.size - 2) : SymbolAt(res, i) = SymbolAt(self, i + 1)

\* C5: r = q >> c has r[0] = code(c) and r[i] = q[i-1] for 1 <= i < N (the
\* old last symbol is dropped), and r's last cell is zero beyond position N.
C5_ShiftRightConsistency ==
  (op = ">>" /\ status = "ok") =>
    /\ res.size = self.size
    /\ SymbolAt(res, 0) = code(input.c)
    /\ \A i \in 1..(res.size - 1) : SymbolAt(res, i) = SymbolAt(self, i - 1)
    /\ PaddingZero(res)

\* C5 witness: a two-cell sequence whose last symbol is not A was shifted
\* right, carrying a symbol across the cell boundary
C5_Witness ==
  /\ op = ">>"
  /\ status = "ok"
  /\ self = MkSeq(5, <<228, 1>>)
  /\ input.c = 71
  /\ res = MkSeq(5, <<146, 3>>)

\* C6: (!q)[i] = complement(q[N-1-i]) for every i, N even or odd, and !!q
\* compares == to q.
C6_ReverseComplement ==
  op = "!" =>
    /\ res.size = self.size
    /\ \A i \in 0..(res.size - 1) :
         SymbolAt(res, i) = 3 - SymbolAt(self, res.size - 1 - i)
    /\ Equal(RevCompl(res), self)

\* C6 witness: an odd-length, two-cell sequence was reverse-complemented
C6_Witness ==
  /\ op = "!"
  /\ self = MkSeq(5, <<228, 1>>)
  /\ res = MkSeq(5, <<146, 3>>)

\* C7: r = q.pushBack(c) has size N+1, r[i] = q[i] for i < N and
\* r[N] = code(c), whether or not a new storage cell is needed.
C7_PushBackGrows ==
  op = "pushBack" =>
    /\ res.size = self.size + 1
    /\ Len(res.data) = DataSize(res.size)
    /\ \A i \in 0..(self.size - 1) : SymbolAt(res, i) = SymbolAt(self, i)
    /\ SymbolAt(res, self.size) = code(input.c)

\* Lemmas locating the failures of C1, C2, C4 and C7: SetZero is the only
\* operation that sets padding bits, and on operands whose padding is zero
\* equality, operator<< and pushBack behave as described.
OnlySetZeroBreaksPadding ==
  (res # Null /\ op # "GetZero" /\ (self = Null \/ PaddingZero(self))) =>
    PaddingZero(res)

EqualityOnZeroPadded ==
  (op = "compare" /\ PaddingZero(self) /\ PaddingZero(res)) =>
    (out[1] <=> SameSymbols(res, self))

ShiftLeftOnZeroPadded ==
  (op = "<<" /\ PaddingZero(self)) =>
    /\ SymbolAt(res, res.size - 1) = code(input.c)
    /\ \A i \in 0..(res.size - 2) : SymbolAt(res, i) = SymbolAt(self, i + 1)

PushBackOnZeroPadded ==
  (op = "pushBack" /\ PaddingZero(self)) =>
    /\ res.size = self.size + 1
    /\ \A i \in 0..(self.size - 1) : SymbolAt(res, i) = SymbolAt(self, i)
    /\ SymbolAt(res, self.size) = code(input.c)

\* h * m + c in size_t, by long multiplication
RECURSIVE MulAdd(_, _, _, _)
MulAdd(h, m, k, c) ==
  IF k > NLimbs THEN <<>>
  ELSE LET v == h[k] * m + c
       IN  <<v % Limb>> \o MulAdd(h, m, k + 1, v \div Limb)

\* the fold h := h * 31 + cell over the first k cells, from the seed 239
RECURSIVE PolyHash(_, _)
PolyHash(data, k) ==
  IF k = 0 THEN SizeT(239)
  ELSE MulAdd(PolyHash(data, k - 1), 31, 1, data[k])

\* C8: sequences that compare == have the same GetHash and the same hash(),
\* and both are the fold h := h * 31 + cell over all cells from the seed 239,
\* modulo 2^64.
C8_EqualityHashConsistency ==
  /\ (op = "compare" /\ out[1]) =>
       /\ GetHash(res) = GetHash(self)
       /\ hash(res) = hash(self)
       /\ GetHash(res) = hash(self)
  /\ op = "GetHash" => out = PolyHash(self.data, DataSize(self.size))
  /\ op = "hash" => out = PolyHash(self.data, DataSize(self.size))

\* C8 witness: a 12-cell sequence equal to its reverse complement was
\* compared with it; its hash has wrapped around
C8_Witness ==
  /\ op = "compare"
  /\ out[1]
  /\ self.data = <<0, 0, 0, 0, 0, 0, 255, 255, 255, 255, 255, 255>>
  /\ GetHash(res) = <<2575, 28152, 22464, 13443>>

\* C9: BinWrite emits sizeof(T) * DataSize bytes; BinRead of the record of q
\* into a Seq of the same size_, whatever it held, returns true and leaves
\* it with q's storage, so that it compares == to q.
C9_SerializationRoundTrip ==
  /\ (op = "BinWrite" /\ ret) =>
       /\ wrote = self
       /\ Len(strm.bytes) = SizeofT * DataSize(self.size)
  /\ (op = "BinRead" /\ wrote # Null /\ wrote.size = self.size) =>
       /\ ret
       /\ self.data = wrote.data
       /\ Equal(self, wrote)

\* C9 witness: the record of "ACGTC" was read into a GetZero sequence
C9_Witness ==
  /\ op = "BinRead"
  /\ wrote = MkSeq(5, <<228, 1>>)
  /\ input.src = <<255, 255>>
  /\ self = MkSeq(5, <<228, 1>>)
  /\ ret

\* C10: Seq<N>(s, offset, count) has symbol i = code(s[offset + i]) for
\* i < count and 0 for count <= i < N; start<M>() is the first M symbols and
\* end<M>() the last M symbols.
C10_SubSequence ==
  /\ (op = "Seq(S)" /\ status = "ok") =>
       /\ Len(res.data) = DataSize(res.size)
       /\ \A i \in 0..(res.size - 1) :
            SymbolAt(res, i) =
              IF i < input.count THEN code(input.src[input.offset + i + 1])
              ELSE 0
  /\ (op = "start" /\ status = "ok") =>
       /\ res.size = input.count
       /\ Len(res.data) = DataSize(res.size)
       /\ \A i \in 0..(res.size - 1) : SymbolAt(res, i) = SymbolAt(self, i)
  /\ (op = "end" /\ status = "ok") =>
       /\ res.size = input.count
       /\ Len(res.data) = DataSize(res.size)
       /\ \A i \in 0..(res.size - 1) :
            SymbolAt(res, i) = SymbolAt(self, self.size - res.size + i)

\* C10 witness: the last three symbols of "ACGTC", across the cell boundary
C10_Witness ==
  /\ op = "end"
  /\ status = "ok"
  /\ self = MkSeq(5, <<228, 1>>)
  /\ input.count = 3
  /\ res = MkSeq(3, <<30>>)

\* the cell k of the packing of the first n symbols of a buffer: the whole
\* buffer cell, or its low symbols when the n-symbol boundary falls inside it
PackedCell(buf, n, k) ==
  IF k * TNucl <= n THEN buf[k] ELSE buf[k] % (4 ^ (n - (k - 1) * TNucl))

\* C11: Seq<N>(buffer) has the first N symbols of the buffer, each of its
\* cells is determined by the buffer, and the bits of the last cell beyond
\* the N-symbol boundary are zero, for N a multiple of TNucl or not.
C11_PrepackedBuffer ==
  (op = "Seq(T*)" /\ status = "ok") =>
    /\ \A i \in 0..(res.size - 1) :
         SymbolAt(res, i) = SymbolAt(MkSeq(res.size, input.src), i)
    /\ \A k \in 1..DataSize(res.size) :
         res.data[k] = PackedCell(input.src, res.size, k)
    /\ PaddingZero(res)

\* the part of C11 that the code meets: sizes that leave a partly filled
\* last cell, which the constructor assigns and masks
PrepackedBufferWithRemainder ==
  (op = "Seq(T*)" /\ NuclsRemain(res.size) # 0) =>
    /\ \A k \in 1..DataSize(res.size) :
         res.data[k] = PackedCell(input.src, res.size, k)
    /\ PaddingZero(res)

\* a character that is neither a nucleotide character nor a raw code
NoSymbol(c) == ~is_nucl(c) /\ ~is_dignucl(c)

\* the C string s is not exactly n nucleotide characters and the terminator
MalformedCString(s, n) ==
  Len(s) # n \/ \E k \in 1..Len(s) : NoSymbol(s[k])

\* the generic constructor inspects or reads a character that is no symbol
MalformedSource(src, offset, count) ==
  NoSymbol(src[1]) \/ \E i \in 0..(count - 1) : NoSymbol(src[offset + i + 1])

\* C12: construction from a C string whose terminator is not at position N,
\* or from input holding a character that is neither A, C, G, T nor a raw
\* code, ends in the fatal state and yields no value.
C12_MalformedInputFatal ==
  /\ (op = "Seq(char*)" /\ MalformedCString(input.src, input.count)) =>
       status = "fatal" /\ res = Null
  /\ (op = "Seq(S)" /\ MalformedSource(input.src, input.offset, input.count)) =>
       status = "fatal" /\ res = Null

\* the part of C12 that the code meets: a string longer than N, a source
\* whose first element is no symbol, and, if the codec itself stops on a
\* character it does not know, every malformed character input
MalformedInputFatalWhereChecked ==
  /\ (op = "Seq(char*)" /\ Len(input.src) > input.count) =>
       status = "fatal" /\ res = Null
  /\ (op = "Seq(S)" /\ NoSymbol(input.src[1])) =>
       status = "fatal" /\ res = Null
  /\ (op = "Seq(char*)" /\ CodecStops(input.c)
        /\ MalformedCString(input.src, input.count)) =>
       status = "fatal" /\ res = Null
  /\ (op = "Seq(S)" /\ CodecStops(input.c) /\ is_nucl(input.src[1])
        /\ MalformedSource(input.src, input.offset, input.count)) =>
       status = "fatal" /\ res = Null

\* a source of raw codes with a later element that is no symbol is packed
\* without any check, whatever the codec does
RawSourceUnchecked ==
  (op = "Seq(S)" /\ is_dignucl(input.src[1])) => status = "ok"

\* on well-formed input the constructors on any content are init and SeqFrom
ConstructorsAgree ==
  /\ (op = "Seq(char*)" /\ Len(input.src) >= input.count
        /\ \A k \in 1..Len(input.src) : is_nucl(input.src[k])) =>
       LET r == init(input.count, input.src)
       IN  IF r.verify
           THEN status = "ok" /\ res = MkSeq(input.count, r.arr)
           ELSE status = "fatal"
  /\ (op = "Seq(S)"
        /\ \/ \A k \in 1..Len(input.src) : is_nucl(input.src[k])
           \/ \A k \in 1..Len(input.src) : is_dignucl(input.src[k])) =>
       /\ status = "ok"
       /\ res.data = SeqFrom(res.size, input.src, input.offset, input.count).data

\* C13: BinRead returns false when the stream has failed or holds fewer than
\* sizeof(T) * DataSize bytes, and true only when it consumed exactly that
\* many; BinWrite returns false when the stream reports a failure; neither
\* ends in the fatal state.
C13_SerializationFailuresAsValues ==
  [][/\ OpBinRead =>
          LET n == SizeofT * DataSize(self.size)
          IN  /\ ret' = (~strm.fail /\ Len(strm.bytes) >= n)
              /\ ret' => strm'.bytes = SubSeq(strm.bytes, n + 1, Len(strm.bytes))
              /\ status' = "ok"
     /\ OpBinWrite =>
          /\ ret' = ~strm'.fail
          /\ ret' => Len(strm'.bytes) = Len(strm.bytes) + SizeofT * DataSize(self.size)
          /\ status' = "ok"]_vars

\* C13 witness: a record of one byte was read into a sequence of two cells;
\* the read came back false with the byte stored and the stream failed
C13_Witness ==
  /\ op = "BinRead"
  /\ ~ret
  /\ status = "ok"
  /\ strm.fail
  /\ input.src = <<0, 0>>
  /\ self = MkSeq(5, <<228, 0>>)

\* the operations that return a new Seq, and the observers
Operators == {"<<", ">>", "!", "pushBack", "pushFront", "start", "end"}
Observers == {"str", "GetHash", "hash", "compare"}

\* C14: apart from BinRead no operation of the public interface changes a
\* sequence that is already constructed (the client assigning a returned
\* value to its variable is not an operation of the type); the operators
\* and observers leave their operand as it was and the operators return
\* their result as a new value.
C14_Immutability ==
  [][(self # Null /\ op' \notin {"BinRead", "keep"}) =>
       /\ self' = self
       /\ op' \in Operators /\ status' = "ok" => res' # Null]_vars

\* the part of C14 that the code meets: the const operators and observers
OperatorsLeaveOperand ==
  [][(op' \in Operators \cup Observers) =>
       /\ self' = self
       /\ op' \in Operators /\ status' = "ok" => res' # Null]_vars

====
